---- MODULE Spec2Model ----
(***************************************************************************)
(* Model of cache_probe (src/main.cpp): the median aggregation, the two    *)
(* breakpoint detectors, the random-cycle builders, the three measurement  *)
(* functions and the three sweep drivers.                                  *)
(*                                                                         *)
(* Numbers.  A latency (a C++ double) is modelled by an integer.  The      *)
(* ratio tests of the detectors are decided by cross-multiplication with   *)
(* the ratios written in hundredths (1.35 -> 135), which is exact for the  *)
(* real-number comparison.  The latency values used below are small        *)
(* integers for which no comparison is an exact tie other than 0 against   *)
(* 0, so the double comparison of the code and the exact comparison of the *)
(* model agree.  median returns TWICE the median, which keeps the half     *)
(* produced by "* 0.5" an integer.                                         *)
(*                                                                         *)
(* Indices.  The code indexes from 0, TLA+ sequences from 1: at(s, i) is   *)
(* the code's s[i].                                                        *)
(***************************************************************************)
EXTENDS Integers, Sequences, FiniteSets, TLC

VARIABLES
    pc,              \* position of the operation under study
    pts,             \* std::vector<SizePoint>: the Point Sequence
    result,          \* value returned by the operation under study
    v,               \* the vector handed to median (reordered in place)
    input,           \* the caller's samples as handed to median (history)
    probe,           \* which probe/driver runs: "size", "assoc", "stride"
    k,               \* loop position of a sweep (0-based index of the next parameter)
    env,             \* the synthetic latency curve the measurements follow
    allocFails,      \* number of working-set buffer allocations that have failed
    heapFails,       \* number of other std::vector allocations that have thrown
    results,         \* per-trial ns/access values collected by a measurement
    elapsed,         \* per-trial elapsed times in ns (history)
    call,            \* arguments of the measurement call under study
    next,            \* the linked working set: slot -> next slot
    idx              \* the shuffled order of the active units

vars == <<pc, pts, result, v, input, probe, k, env, allocFails, heapFails, results,
          elapsed, call, next, idx>>

(***************************************************************************)
(* Generic helpers                                                         *)
(***************************************************************************)
at(s, i) == s[i + 1]

Min2(a, b) == IF a <= b THEN a ELSE b
Max2(a, b) == IF a >= b THEN a ELSE b

Range(s) == {s[i] : i \in DOMAIN s}

\* Permutations of 1..n as sequences.
Perms(n) == {p \in [1..n -> 1..n] : \A i, j \in 1..n : i # j => p[i] # p[j]}

\* Number of positions of s holding x.
RECURSIVE CountOf(_, _)
CountOf(s, x) ==
    IF s = <<>> THEN 0
    ELSE (IF Head(s) = x THEN 1 ELSE 0) + CountOf(Tail(s), x)

\* s and w hold the same elements with the same multiplicities.
SameMultiset(s, w) ==
    /\ Len(s) = Len(w)
    /\ \A x \in Range(s) \cup Range(w) : CountOf(s, x) = CountOf(w, x)

\* Insertion of x into the ascending sequence s.
RECURSIVE InsertSorted(_, _)
InsertSorted(x, s) ==
    IF s = <<>> THEN <<x>>
    ELSE IF x <= Head(s) THEN <<x>> \o s
    ELSE <<Head(s)>> \o InsertSorted(x, Tail(s))

RECURSIVE SortAsc(_)
SortAsc(s) == IF s = <<>> THEN <<>> ELSE InsertSorted(Head(s), SortAsc(Tail(s)))

(***************************************************************************)
(* median (src/main.cpp 37-47)                                             *)
(***************************************************************************)
\* std::nth_element(v.begin(), v.begin() + nth, v.end()): every arrangement
\* the library may leave behind.  The element at nth is the one a full sort
\* would put there, nothing before it is greater, nothing after it smaller;
\* the order inside the two parts is unspecified.
nth_element(vec, nth) ==
    {[i \in 1..Len(vec) |-> vec[p[i]]] : p \in
        {q \in Perms(Len(vec)) :
            /\ \A i \in 0..(nth - 1) : vec[q[i + 1]] <= vec[q[nth + 1]]
            /\ \A j \in (nth + 1)..(Len(vec) - 1) : vec[q[j + 1]] >= vec[q[nth + 1]]}}

\* std::max_element over the code's [first, last): the largest value.
RECURSIVE max_element(_, _, _)
max_element(vec, first, last) ==
    IF first + 1 >= last THEN at(vec, first)
    ELSE Max2(at(vec, first), max_element(vec, first + 1, last))

\* Mutant: takes the element just before the middle, as if nth_element had
\* sorted the lower half.
median_tail_presorted(w) ==
    LET n == Len(w)
        m == at(w, n \div 2)
    IN  IF n % 2 = 0 THEN m + at(w, n \div 2 - 1) ELSE 2 * m

\* Lines 41-46 on the vector w as nth_element left it; returns 2 * m.
median_tail(w) ==
    LET n == Len(w)
        m == at(w, n \div 2)
    IN  IF n % 2 = 0 THEN m + max_element(w, 0, n \div 2) ELSE 2 * m

\* median as a function of its argument, for the callers that only use the
\* returned value: the sorted vector is one of the arrangements nth_element
\* may produce.  Returns 2 * m (0 for an empty vector).
median(vec) == IF vec = <<>> THEN 0 ELSE median_tail(SortAsc(vec))

(***************************************************************************)
(* SizePoint and the detectors (src/main.cpp 32-103)                       *)
(***************************************************************************)
SizePoint(b, ns) == [bytes |-> b, ns_per_access |-> ns]

\* Ratios in hundredths.
exceed_base_ratio == 135
local_jump_ratio == 118
confirm_relax == 98
confirm_points == 3
relaxed_base_ratio == 130
relaxed_local_ratio == 115
min_points == 10
base_window == 8

\* Line 52-56: twice the median of the first min(8, size) latencies.
base_of(p) ==
    median([i \in 1..Min2(base_window, Len(p)) |-> p[i].ns_per_access])

\* Line 66: cur >= base * 1.35 && cur >= prev * 1.18, base2 being 2 * base.
jump_at(p, base2, i) ==
    LET cur == at(p, i).ns_per_access
        prev == at(p, i - 1).ns_per_access
    IN  /\ cur * 200 >= base2 * exceed_base_ratio
        /\ cur * 100 >= prev * local_jump_ratio

\* Lines 69-75: none of the next confirm_points latencies is below
\* base * (1.35 * 0.98).
confirmed(p, base2, i) ==
    \A c \in 1..confirm_points :
        ~(at(p, i + c).ns_per_access * 20000
            < base2 * exceed_base_ratio * confirm_relax)

\* Mutant: reports the jump point itself instead of the point before it.
strict_hit_at_jump(p, i) == at(p, i).bytes

\* Line 76: the value returned on a confirmed jump at index i.
strict_hit(p, i) == at(p, i - 1).bytes

\* Lines 62-78: the scan from index i on.
RECURSIVE strict_scan(_, _, _)
strict_scan(p, base2, i) ==
    IF ~(i + confirm_points < Len(p)) THEN 0
    ELSE IF jump_at(p, base2, i) /\ confirmed(p, base2, i) THEN strict_hit(p, i)
    ELSE strict_scan(p, base2, i + 1)

\* Line 50.
strict_too_short(p) == Len(p) < min_points

detect_jump_bytes(p) ==
    IF strict_too_short(p) THEN 0 ELSE strict_scan(p, base_of(p), 1)

\* Line 90: cur > baseline * 1.30 && cur > prev * 1.15.
relaxed_jump_at(p, baseline, i) ==
    LET cur == at(p, i).ns_per_access
        prev == at(p, i - 1).ns_per_access
    IN  /\ cur * 100 > baseline * relaxed_base_ratio
        /\ cur * 100 > prev * relaxed_local_ratio

\* Lines 85-94: estimated after the loop (0 when nothing matched).
RECURSIVE relaxed_scan(_, _, _)
relaxed_scan(p, baseline, i) ==
    IF ~(i < Len(p)) THEN 0
    ELSE IF relaxed_jump_at(p, baseline, i) THEN at(p, i).bytes
    ELSE relaxed_scan(p, baseline, i + 1)

\* Mutant: the fallback reports the last point.
relaxed_fallback_last(p) == at(p, Len(p) - 1).bytes

\* Lines 97-99: std::max_element with a "<" comparator on the latency yields
\* the first point of maximal latency.
relaxed_fallback(p) ==
    LET best == CHOOSE i \in 0..(Len(p) - 1) :
                    /\ \A j \in 0..(Len(p) - 1) :
                           at(p, j).ns_per_access <= at(p, i).ns_per_access
                    /\ \A j \in 0..(i - 1) :
                           at(p, j).ns_per_access < at(p, i).ns_per_access
    IN  at(p, best).bytes

\* Defined for a non-empty sequence; on an empty one the code dereferences
\* end() (see RunRelaxed).
detect_jump_bytes_relaxed(p) ==
    LET estimated == relaxed_scan(p, at(p, 0).ns_per_access, 1)
    IN  IF estimated = 0 THEN relaxed_fallback(p) ELSE estimated

(***************************************************************************)
(* Specification SpecDetect: the two detectors applied to bounded Point    *)
(* Sequences.  Parameters ascend as in every sweep (the point at index i   *)
(* carries i + 1, the associativity sweep's candidate count).              *)
(***************************************************************************)
MaxLen == 10          \* longest sequence with freely chosen latencies
MaxZeros == 1         \* most failure markers in such a sequence
MaxRampLen == 12      \* longest sequence with non-decreasing latencies

Lat == {5, 7}                 \* a fast and a slow latency
FailMarker == 0               \* latency recorded for a failed measurement
LatRamp == <<0, 5, 6, 7, 9>>  \* finer steps, for gradual rises
MaxStaleBytes == 65535        \* largest stale size_t kept as a number

MakePts(l) == [i \in 1..Len(l) |-> SizePoint(i, l[i])]

\* l with the positions named by z overwritten by the failure marker
\* (z[j] = 0 names no position).
WithFailures(l, z) ==
    [i \in 1..Len(l) |-> IF \E j \in DOMAIN z : z[j] = i THEN FailMarker ELSE l[i]]

\* The non-decreasing sequence over LatRamp of length n in which b[j] is the
\* number of leading points below the (j+1)-th value of LatRamp.
RampSeq(n, b) ==
    [i \in 1..n |-> LatRamp[1 + Cardinality({j \in DOMAIN b : b[j] < i})]]

\* A sequence over Lat with at most MaxZeros failure markers.
FreeInput(p) ==
    \E n \in 0..MaxLen :
        \E l \in [1..n -> Lat], z \in [1..MaxZeros -> 0..n] :
            p = MakePts(WithFailures(l, z))

\* A non-decreasing sequence over LatRamp.
RampInput(p) ==
    \E n \in 0..MaxRampLen :
        \E b \in [1..(Len(LatRamp) - 1) -> 0..n] :
            /\ \A j \in 1..(Len(LatRamp) - 2) : b[j] <= b[j + 1]
            /\ p = MakePts(RampSeq(n, b))

\* Values of the variables a specification does not use.
IdleMedian == v = <<>> /\ input = <<>>
IdleSweep ==
    probe = "none" /\ k = 0 /\ env = <<>> /\ allocFails = 0 /\ heapFails = 0
IdleMeasure == results = <<>> /\ elapsed = <<>> /\ call = <<>>
IdleCycle == next = <<>> /\ idx = <<>>

InitDetect ==
    /\ pc = "ready"
    /\ FreeInput(pts) \/ RampInput(pts)
    /\ result = 0
    /\ IdleMedian /\ IdleSweep /\ IdleMeasure /\ IdleCycle

\* detect_jump_bytes(pts).  On a sequence of at least 10 points the function
\* allocates baseVals (line 54); std::bad_alloc is caught nowhere, so a
\* throwing allocation ends the process.
RunStrict ==
    /\ pc = "ready"
    /\ \/ /\ pc' = "strict"
          /\ result' = detect_jump_bytes(pts)
          /\ UNCHANGED heapFails
       \/ /\ ~strict_too_short(pts)
          /\ pc' = "terminated"
          /\ heapFails' = heapFails + 1
          /\ UNCHANGED result
    /\ UNCHANGED <<pts, v, input, probe, k, env, allocFails,
                   results, elapsed,
                   call, next, idx>>

\* detect_jump_bytes_relaxed(pts)
RunRelaxed ==
    /\ pc = "ready"
    /\ pts # <<>>
    /\ pc' = "relaxed"
    /\ result' = detect_jump_bytes_relaxed(pts)
    /\ UNCHANGED <<pts, v, input, probe, k, env, allocFails, heapFails,
                   results, elapsed,
                   call, next, idx>>

\* The size_t values a read of stale storage may deliver, as the model
\* records them: a value up to MaxStaleBytes is recorded as it is, and
\* AboveStale stands for every larger size_t.
AboveStale == MaxStaleBytes + 1

StaleReads == 0..MaxStaleBytes \cup {AboveStale}

\* detect_jump_bytes_relaxed on an empty vector: max_element returns end()
\* and line 99 reads the bytes field through it.  Undefined behaviour: the
\* call returns whatever size_t lies at the start of the vector's storage
\* (any value: a small count, a grid size, a heap address), or the read
\* faults (a vector that never held storage has a null end()).
RunRelaxedEmpty ==
    /\ pc = "ready"
    /\ pts = <<>>
    /\ \/ pc' = "relaxed" /\ result' \in StaleReads
       \/ pc' = "crashed" /\ result' = 0
    /\ UNCHANGED <<pts, v, input, probe, k, env, allocFails, heapFails,
                   results, elapsed,
                   call, next, idx>>

NextDetect == RunStrict \/ RunRelaxed \/ RunRelaxedEmpty

SpecDetect == InitDetect /\ [][NextDetect]_vars

(***************************************************************************)
(* Properties of the detectors, checked under SpecDetect                   *)
(***************************************************************************)
\* The median as the sorted-samples rule states it, doubled: the middle
\* element for an odd count, the sum of the two middle elements for an even
\* count.
SortedMedian2(s) ==
    LET n == Len(s)
        o == SortAsc(s)
    IN  IF n % 2 = 1 THEN 2 * at(o, n \div 2)
        ELSE at(o, n \div 2 - 1) + at(o, n \div 2)

\* Twice the median of the first (at most) 8 latencies of p.
Baseline2(p) ==
    SortedMedian2([i \in 1..Min2(8, Len(p)) |-> p[i].ns_per_access])

ns(p, i) == at(p, i).ns_per_access

\* Indices 0..kk all carry the same latency L > 0 and indices kk+1..kk+4
\* exist and carry at least 1.4 * L.
FlatThenHigh(p, kk) ==
    /\ kk + 4 < Len(p)
    /\ ns(p, 0) > 0
    /\ \A i \in 0..kk : ns(p, i) = ns(p, 0)
    /\ \A i \in (kk + 1)..(kk + 4) : ns(p, i) * 10 >= 14 * ns(p, 0)

\* C1 as stated: whenever a sequence is flat at L > 0 on 0..kk and at least
\* 1.4 * L on kk+1..kk+4, the strict detector returns the parameter at kk.
C1_AsStated ==
    pc = "strict" =>
        \A kk \in 0..(Len(pts) - 1) :
            FlatThenHigh(pts, kk) => result = at(pts, kk).bytes

\* C1 amended: the same, for sequences of at least 10 points whose flat
\* region covers at least the first five points (kk >= 4), so that the
\* median of the first eight latencies is L.
C1_FlatThenHighFound ==
    pc = "strict" =>
        \A kk \in 4..(Len(pts) - 1) :
            (Len(pts) >= 10 /\ FlatThenHigh(pts, kk)) => result = at(pts, kk).bytes

C1_Witness ==
    /\ pc = "strict"
    /\ Len(pts) >= 10
    /\ \E kk \in 4..(Len(pts) - 1) :
           FlatThenHigh(pts, kk) /\ result = at(pts, kk).bytes /\ result # 0

\* All latencies equal, or the largest below 1.18 times the smallest.
TightBand(p) ==
    \/ \A i, j \in 1..Len(p) : p[i].ns_per_access = p[j].ns_per_access
    \/ \A i, j \in 1..Len(p) :
           p[i].ns_per_access * 100 < 118 * p[j].ns_per_access

\* C5: on a sequence of any length whose latencies lie in a tight band, the
\* all-zero failure-marker sequence included, the strict detector returns 0.
C5_TightBandNotDetected ==
    (pc = "strict" /\ TightBand(pts)) => result = 0

\* The relaxed rule at index i >= 1: above 1.30 times the first latency and
\* above 1.15 times the latency just before.
RelaxedMatch(p, i) ==
    /\ ns(p, i) * 100 > 130 * ns(p, 0)
    /\ ns(p, i) * 100 > 115 * ns(p, i - 1)

\* C7: on a non-empty sequence with positive parameters the relaxed
\* detector returns the parameter of the first point matching the relaxed
\* rule, or, when no point matches, the parameter of a point of maximal
\* latency; the result is never 0.
C7_RelaxedResult ==
    (pc = "relaxed" /\ pts # <<>> /\ \A i \in 1..Len(pts) : pts[i].bytes > 0) =>
        LET matches == {i \in 1..(Len(pts) - 1) : RelaxedMatch(pts, i)}
        IN  /\ result # 0
            /\ matches # {} =>
                   \E i \in matches :
                       /\ \A j \in matches : i <= j
                       /\ result = at(pts, i).bytes
            /\ matches = {} =>
                   \E i \in 0..(Len(pts) - 1) :
                       /\ \A j \in 0..(Len(pts) - 1) : ns(pts, j) <= ns(pts, i)
                       /\ result = at(pts, i).bytes

C7_WitnessMatch ==
    /\ pc = "relaxed"
    /\ \E i \in 2..(Len(pts) - 1) :
           RelaxedMatch(pts, i) /\ ~RelaxedMatch(pts, i - 1) /\ result = at(pts, i).bytes

\* The index (0-based) of the point whose parameter is b.
IndexOfParam(p, b) == CHOOSE i \in 0..(Len(p) - 1) : at(p, i).bytes = b

\* C9, for sequences free of the zero failure marker: a non-zero
\* result names a point whose latency is below 1.35 times the baseline, and
\* the point after it is at or above that threshold.
C9_LastFastPoint ==
    (pc = "strict" /\ result # 0 /\ \A i \in 1..Len(pts) : pts[i].ns_per_access > 0) =>
        LET r == IndexOfParam(pts, result)
        IN  /\ ns(pts, r) * 200 < 135 * Baseline2(pts)
            /\ ns(pts, r + 1) * 200 >= 135 * Baseline2(pts)

(***************************************************************************)
(* Specification SpecMedian: median applied to bounded sample vectors      *)
(***************************************************************************)
MaxSamples == 5               \* most trial samples in one vector
SampleVals == {1, 2, 4}       \* per-trial ns/access values

InitMedian ==
    /\ pc = "ready"
    /\ \E n \in 0..MaxSamples : \E s \in [1..n -> SampleVals] : v = s /\ input = s
    /\ result = 0
    /\ pts = <<>>
    /\ IdleSweep /\ IdleMeasure /\ IdleCycle

\* median(v) on an empty vector: line 38.
MedianEmpty ==
    /\ pc = "ready"
    /\ v = <<>>
    /\ pc' = "median"
    /\ result' = 0
    /\ UNCHANGED <<pts, v, input, probe, k, env, allocFails, heapFails,
                   results, elapsed,
                   call, next, idx>>

\* median(v) on a non-empty vector: nth_element reorders v in place, then
\* lines 41-46 read the reordered vector.  result holds 2 * m.
Median ==
    /\ pc = "ready"
    /\ v # <<>>
    /\ \E w \in nth_element(v, Len(v) \div 2) :
           /\ v' = w
           /\ result' = median_tail(w)
    /\ pc' = "median"
    /\ UNCHANGED <<pts, input, probe, k, env, allocFails, heapFails,
                   results, elapsed,
                   call, next, idx>>

NextMedian == MedianEmpty \/ Median

SpecMedian == InitMedian /\ [][NextMedian]_vars

\* C8: the result of median is decided by the multiset of the samples: it
\* is the middle element of the sorted samples for an odd count and the
\* average of the two middle elements for an even count (doubled here),
\* whatever the order of the samples and whatever order nth_element leaves.
C8_MedianOfMultiset ==
    (pc = "median" /\ input # <<>>) =>
        /\ result = SortedMedian2(input)
        /\ SameMultiset(v, input)

\* An even count of samples that arrive unsorted and that nth_element leaves
\* unsorted, with two different middle elements.
C8_Witness ==
    /\ pc = "median"
    /\ Len(input) >= 4 /\ Len(input) % 2 = 0
    /\ input # SortAsc(input)
    /\ v # SortAsc(input)
    /\ at(SortAsc(input), Len(input) \div 2) # at(SortAsc(input), Len(input) \div 2 - 1)
    /\ result = SortedMedian2(input)

(***************************************************************************)
(* The working-set builders (src/main.cpp 121-135, 216-231, 308-323)       *)
(*                                                                         *)
(* A working set is the function next from slot number to the slot its     *)
(* link names.  Slots are uint32_t elements for the size probe, pages for  *)
(* the associativity probe and stride-sized cells for the line-size probe. *)
(***************************************************************************)
cycle_step == 16     \* build_random_cycle(next, 16): one unit per 16 elements
NoLink == -1         \* a slot whose content is the memset pattern, not a link

\* Every order std::shuffle may leave the units in.
shuffle(units) ==
    {o \in [1..Cardinality(units) -> units] :
        \A i, j \in 1..Cardinality(units) : i # j => o[i] # o[j]}

\* Mutant: the link from the last unit back to the first is not written.
link_ring_open(mem, order) ==
    [s \in DOMAIN mem |->
        IF \E c \in 1..(Len(order) - 1) : order[c] = s
        THEN order[1 + CHOOSE c \in 1..(Len(order) - 1) : order[c] = s]
        ELSE mem[s]]

\* Lines 130-131, 227-229, 315-321: unit order[c] links to order[c + 1], the
\* last unit links to the first; other slots keep their content.
link_ring(mem, order) ==
    [s \in DOMAIN mem |->
        IF \E c \in 1..Len(order) : order[c] = s
        THEN order[1 + ((CHOOSE c \in 1..Len(order) : order[c] = s) % Len(order))]
        ELSE mem[s]]

\* Lines 125, 130-134: the array after build_random_cycle, order being the
\* outcome of the shuffle; the slots that are no unit link to themselves.
build_random_cycle(mem, step, order) ==
    LET linked == link_ring(mem, order)
    IN  [s \in DOMAIN mem |-> IF s % step # 0 THEN s ELSE linked[s]]

\* The units each builder links.
size_units(n, step) == {i \in 0..(n - 1) : i % step = 0}
assoc_units(k_lines) == 0..(k_lines - 1)
stride_units(count) == 0..(count - 1)

(***************************************************************************)
(* Specification SpecCycle: one build of each kind of working set          *)
(***************************************************************************)
MaxSlots == 64       \* most uint32_t elements of a size-probe array
MaxUnits == 4        \* most pages / cells of the other two working sets

IdleDetect == pts = <<>> /\ result = 0

InitCycle ==
    /\ pc = "allocated"
    /\ \/ \E n \in 1..MaxSlots :                 \* std::vector<uint32_t> next(n)
              /\ probe = "size"
              /\ call = [n |-> n, step |-> cycle_step]
              /\ next = [s \in 0..(n - 1) |-> 0]
       \/ \E k_lines \in 1..MaxUnits :           \* k_lines + 1 pages, memset 1
              /\ probe = "assoc"
              /\ call = [k_lines |-> k_lines]
              /\ next = [s \in 0..k_lines |-> NoLink]
       \/ \E count \in 2..MaxUnits :             \* bytes / stride cells, memset 0
              /\ probe = "stride"
              /\ call = [count |-> count]
              /\ next = [s \in 0..(count - 1) |-> NoLink]
    /\ idx = <<>>
    /\ IdleDetect /\ IdleMedian
    /\ k = 0 /\ env = <<>> /\ allocFails = 0 /\ heapFails = 0
    /\ results = <<>> /\ elapsed = <<>>

\* build_random_cycle(next, 16); idx.reserve (line 124) may throw, which
\* ends the process (std::bad_alloc is caught nowhere).
BuildSizeCycle ==
    /\ pc = "allocated" /\ probe = "size"
    /\ \/ /\ \E order \in shuffle(size_units(call.n, call.step)) :
                 /\ idx' = order
                 /\ next' = build_random_cycle(next, call.step, order)
          /\ pc' = "built"
          /\ UNCHANGED heapFails
       \/ /\ pc' = "terminated"
          /\ heapFails' = heapFails + 1
          /\ UNCHANGED <<next, idx>>
    /\ UNCHANGED <<pts, result, v, input, probe, k, env, allocFails,
                   results,
                   elapsed, call>>

\* measure_set_conflict_ns_per_access, lines 216-229 of one trial;
\* nodes.reserve (line 217) may throw.
BuildAssocRing ==
    /\ pc = "allocated" /\ probe = "assoc"
    /\ \/ /\ \E order \in shuffle(assoc_units(call.k_lines)) :
                 /\ idx' = order
                 /\ next' = link_ring(next, order)
          /\ pc' = "built"
          /\ UNCHANGED heapFails
       \/ /\ pc' = "terminated"
          /\ heapFails' = heapFails + 1
          /\ UNCHANGED <<next, idx>>
    /\ UNCHANGED <<pts, result, v, input, probe, k, env, allocFails,
                   results,
                   elapsed, call>>

\* measure_stride, lines 308-321; the allocation of idx(count) (line 308)
\* may throw.
BuildStrideRing ==
    /\ pc = "allocated" /\ probe = "stride"
    /\ \/ /\ \E order \in shuffle(stride_units(call.count)) :
                 /\ idx' = order
                 /\ next' = link_ring(next, order)
          /\ pc' = "built"
          /\ UNCHANGED heapFails
       \/ /\ pc' = "terminated"
          /\ heapFails' = heapFails + 1
          /\ UNCHANGED <<next, idx>>
    /\ UNCHANGED <<pts, result, v, input, probe, k, env, allocFails,
                   results,
                   elapsed, call>>

NextCycle == BuildSizeCycle \/ BuildAssocRing \/ BuildStrideRing

SpecCycle == InitCycle /\ [][NextCycle]_vars

\* The slot reached from s by following j links (a content that names no
\* slot is not followed).
RECURSIVE Follow(_, _, _)
Follow(mem, s, j) ==
    IF j = 0 \/ s \notin DOMAIN mem THEN s ELSE Follow(mem, mem[s], j - 1)

\* The units linked by the builder that ran.
BuiltUnits ==
    IF probe = "size" THEN size_units(call.n, call.step)
    ELSE IF probe = "assoc" THEN assoc_units(call.k_lines)
    ELSE stride_units(call.count)

\* C6: after a build the N units form one cycle: from every unit, following
\* the links visits N distinct units, all N of them, and is back at the
\* start after exactly N steps and not before.
C6_SingleCycle ==
    pc = "built" =>
        LET N == Cardinality(BuiltUnits)
        IN  \A u \in BuiltUnits :
                /\ Follow(next, u, N) = u
                /\ {Follow(next, u, j) : j \in 0..(N - 1)} = BuiltUnits
                /\ \A j \in 1..(N - 1) : Follow(next, u, j) # u

\* A ring of at least three units whose shuffle left them out of order.
C6_Witness ==
    /\ pc = "built"
    /\ Len(idx) >= 3
    /\ \E c \in 1..(Len(idx) - 1) : idx[c] > idx[c + 1]
    /\ \A u \in BuiltUnits : Follow(next, u, Len(idx)) = u

(***************************************************************************)
(* The measurement functions (src/main.cpp 145-176, 200-249, 279-361)      *)
(*                                                                         *)
(* A trial's elapsed time is an input.  The elapsed times and access       *)
(* counts used below divide evenly into even per-access values, so each    *)
(* division and the halving of the doubled median are exact.               *)
(***************************************************************************)
Infinity == 1000000      \* std::numeric_limits<double>::infinity()
sizeof_Node == 8         \* sizeof(Node) = alignof(Node): one pointer
ring_laps == 16          \* measure_stride walks the ring at least 16 times
stride_fail_ns == 1      \* measure_stride's "return 1" on a failed allocation

\* Lines 137-139, for an alignment that is a power of two.
align_up(x, align) == ((x + align - 1) \div align) * align

\* Lines 300-304: the number of cells of the stride ring.
stride_count(bytes, stride) ==
    bytes \div align_up(Max2(stride, sizeof_Node), sizeof_Node)

\* Lines 327-329: the number of timed steps of measure_stride.
stride_steps(target_steps, count) ==
    IF target_steps < count * ring_laps THEN count * ring_laps ELSE target_steps

\* Lines 172-173, 243-244, 353-354: one trial's ns per access.
ns_per(ns_elapsed, accesses) == ns_elapsed \div accesses

\* The smallest element of a non-empty sequence.
RECURSIVE MinOf(_)
MinOf(s) == IF Len(s) = 1 THEN s[1] ELSE Min2(s[1], MinOf(Tail(s)))

\* Lines 337, 355, 360: std::min folded over the trials, from infinity.
best_ns_per(trial_values) ==
    IF trial_values = <<>> THEN Infinity ELSE Min2(Infinity, MinOf(trial_values))

(***************************************************************************)
(* Specification SpecMeasure: one call of each measurement function        *)
(***************************************************************************)
MaxTrials == 3                     \* most trials of one call
ElapsedVals == {256, 512, 1024}    \* elapsed ns of one timed loop
AccessVals == {16, 64}             \* caller-supplied numbers of accesses
StrideVals == {4, 8, 12, 32, 64}       \* caller-supplied strides
StrideBufferBytes == 64            \* the line-size probe's buffer, scaled down

InitMeasure ==
    /\ pc = "entry"
    /\ probe \in {"size", "assoc", "stride"}
    /\ \E a \in AccessVals, t \in 1..MaxTrials, st \in StrideVals :
           call = [accesses |-> a, trials |-> t,
                   stride |-> IF probe = "stride" THEN st ELSE 0]
    /\ results = <<>> /\ elapsed = <<>>
    /\ allocFails = 0 /\ heapFails = 0
    /\ result = 0
    /\ pts = <<>> /\ k = 0 /\ env = <<>>
    /\ IdleMedian /\ IdleCycle

\* std::bad_alloc is caught nowhere (there is no try block in the file), so
\* a throwing allocation ends the process through std::terminate.
\*
\* measure_ns_per_access_random_cycle, lines 150-156: the working set is the
\* std::vector next(n); build_random_cycle reserves idx (line 124) and the
\* function reserves results (line 156).
SizeAlloc ==
    /\ pc = "entry" /\ probe = "size"
    /\ \/ pc' = "trials" /\ UNCHANGED <<allocFails, heapFails>>
       \/ pc' = "terminated" /\ allocFails' = allocFails + 1 /\ UNCHANGED heapFails
       \/ pc' = "terminated" /\ heapFails' = heapFails + 1 /\ UNCHANGED allocFails
    /\ UNCHANGED <<pts, result, v, input, probe, k, env, results, elapsed,
                   call, next, idx>>

\* measure_set_conflict_ns_per_access, lines 206-213: a failed
\* posix_memalign returns 0.0; results.reserve (line 213) may throw.
AssocAlloc ==
    /\ pc = "entry" /\ probe = "assoc"
    /\ \/ pc' = "trials" /\ UNCHANGED <<allocFails, heapFails, result>>
       \/ /\ pc' = "returned" /\ result' = FailMarker
          /\ allocFails' = allocFails + 1 /\ UNCHANGED heapFails
       \/ /\ pc' = "terminated"
          /\ heapFails' = heapFails + 1 /\ UNCHANGED <<allocFails, result>>
    /\ UNCHANGED <<pts, v, input, probe, k, env, results, elapsed, call, next, idx>>

\* measure_stride, lines 286-308: a failed posix_memalign returns 1, a ring
\* of fewer than two cells returns infinity; the allocation of idx(count)
\* (line 308) may throw.
StrideAlloc ==
    /\ pc = "entry" /\ probe = "stride"
    /\ \/ /\ stride_count(StrideBufferBytes, call.stride) >= 2
          /\ pc' = "trials" /\ UNCHANGED <<allocFails, heapFails, result>>
       \/ /\ stride_count(StrideBufferBytes, call.stride) >= 2
          /\ pc' = "terminated"
          /\ heapFails' = heapFails + 1 /\ UNCHANGED <<allocFails, result>>
       \/ /\ stride_count(StrideBufferBytes, call.stride) < 2
          /\ pc' = "returned" /\ result' = Infinity
          /\ UNCHANGED <<allocFails, heapFails>>
       \/ /\ pc' = "returned" /\ result' = stride_fail_ns
          /\ allocFails' = allocFails + 1 /\ UNCHANGED heapFails
    /\ UNCHANGED <<pts, v, input, probe, k, env, results, elapsed, call, next, idx>>

\* One pass of the trial loop of the size and associativity probes
\* (lines 158-174, 215-245): warm up, time call.accesses accesses, record.
Trial ==
    /\ pc = "trials" /\ probe \in {"size", "assoc"}
    /\ Len(results) < call.trials
    /\ \E ns_elapsed \in ElapsedVals :
           /\ elapsed' = Append(elapsed, ns_elapsed)
           /\ results' = Append(results, ns_per(ns_elapsed, call.accesses))
    /\ UNCHANGED <<pc, pts, result, v, input, probe, k, env, allocFails, heapFails,
                   call, next, idx>>

\* A pass of the associativity probe's trial loop in which nodes.reserve
\* (line 217) throws.
AssocTrialNoNodes ==
    /\ pc = "trials" /\ probe = "assoc"
    /\ Len(results) < call.trials
    /\ pc' = "terminated"
    /\ heapFails' = heapFails + 1
    /\ UNCHANGED <<pts, result, v, input, probe, k, env, allocFails, results,
                   elapsed, call, next, idx>>

\* One pass of measure_stride's trial loop (lines 339-356): time `steps`
\* link-following steps and record the quotient.
StrideTrial ==
    /\ pc = "trials" /\ probe = "stride"
    /\ Len(results) < call.trials
    /\ \E ns_elapsed \in ElapsedVals :
           /\ elapsed' = Append(elapsed, ns_elapsed)
           /\ results' = Append(results,
                  ns_per(ns_elapsed,
                         stride_steps(call.accesses,
                                      stride_count(StrideBufferBytes, call.stride))))
    /\ UNCHANGED <<pc, pts, result, v, input, probe, k, env, allocFails, heapFails,
                   call,
                   next, idx>>

\* Lines 175, 248: the trials are over, the median is returned.  median
\* takes results by reference: nth_element (line 40) reorders it in place
\* and lines 41-46 read the reordered vector.
ReturnMedian ==
    /\ pc = "trials" /\ probe \in {"size", "assoc"}
    /\ Len(results) = call.trials
    /\ pc' = "returned"
    /\ \E w \in nth_element(results, Len(results) \div 2) :
           /\ results' = w
           /\ result' = median_tail(w) \div 2
    /\ UNCHANGED <<pts, v, input, probe, k, env, allocFails, heapFails,
                   elapsed,
                   call, next, idx>>

\* Line 360: the trials are over, the smallest value is returned.
ReturnBest ==
    /\ pc = "trials" /\ probe = "stride"
    /\ Len(results) = call.trials
    /\ pc' = "returned"
    /\ result' = best_ns_per(results)
    /\ UNCHANGED <<pts, v, input, probe, k, env, allocFails, heapFails,
                   results, elapsed,
                   call, next, idx>>

NextMeasure ==
    \/ SizeAlloc \/ AssocAlloc \/ StrideAlloc
    \/ Trial \/ AssocTrialNoNodes \/ StrideTrial
    \/ ReturnMedian \/ ReturnBest

SpecMeasure == InitMeasure /\ [][NextMeasure]_vars

\* The per-trial values the claim speaks of: each trial's elapsed time
\* divided by the caller-supplied number of accesses.
PerTrialAsAsked == [t \in 1..Len(elapsed) |-> elapsed[t] \div call.accesses]

\* A measurement that ran all its trials and returned.
Measured == pc = "returned" /\ Len(elapsed) = call.trials

\* C10: every successful measurement returns the median of
\* elapsed / caller-supplied accesses over its trials.
C10_MedianOfAsked ==
    Measured => 2 * result = SortedMedian2(PerTrialAsAsked)

(***************************************************************************)
(* The sweep drivers (src/main.cpp 105-119, 178-195, 251-270, 364-383)     *)
(***************************************************************************)
k_min == 1
k_max == 32
min_stride == 8
max_stride == 1024

\* Mutant: the range stops short of its upper end.
add_range_exclusive(fromKB, toKB, stepKB) ==
    [i \in 1..((toKB - 1 - fromKB) \div stepKB + 1) |-> (fromKB + (i - 1) * stepKB) * 1024]

\* Lines 108-111: the sizes fromKB, fromKB + stepKB, ... up to toKB, in bytes.
add_range(fromKB, toKB, stepKB) ==
    [i \in 1..((toKB - fromKB) \div stepKB + 1) |-> (fromKB + (i - 1) * stepKB) * 1024]

\* Lines 113-118.
make_sizes_grid ==
    add_range(2, 32, 2) \o add_range(40, 128, 8)
        \o add_range(160, 512, 32) \o add_range(576, 1024, 64)

\* Line 376: the strides from `from` on, doubling while <= max_stride.
RECURSIVE stride_grid(_)
stride_grid(from) ==
    IF from <= max_stride THEN <<from>> \o stride_grid(from * 2) ELSE <<>>

\* Line 263: the loop condition of the associativity sweep.  The loop body
\* (264-266) holds no break or return.
assoc_loop_continues(kk) == kk <= k_max

\* The latency a successful measurement reports for a parameter: env.fast
\* up to env.boundary; beyond it env.slow, growing by env.slope per unit.
latency_curve(e, param) ==
    IF param <= e.boundary THEN e.fast
    ELSE e.slow + e.slope * (param - e.boundary - 1)

(***************************************************************************)
(* Specification SpecSweep: the three sweeps over synthetic latency curves,*)
(* with buffer allocations that may fail                                   *)
(***************************************************************************)
MaxAllocFails == 1       \* most allocation failures in one sweep

StepCurves == {<<1, 4>>, <<5, 6>>, <<5, 7>>}      \* <<fast, slow>>
SizeBoundaries == {16384, 32768, 65536, 1048576}
AssocBoundaries == {4, 8, 32}
AssocSlopes == {0, 1, 4}
AssocFlats == {10}
StrideBoundaries == {8, 64, 1024}

InitSweep ==
    /\ pc = "sweep"
    /\ \/ /\ probe = "size"
          /\ k = 0
          /\ \E b \in SizeBoundaries, c \in StepCurves :
                 env = [boundary |-> b, fast |-> c[1], slow |-> c[2], slope |-> 0]
       \/ /\ probe = "assoc"
          /\ k = k_min
          /\ \E b \in AssocBoundaries, f \in AssocFlats, sl \in AssocSlopes :
                 env = [boundary |-> b, fast |-> f, slow |-> f + sl, slope |-> sl]
       \/ /\ probe = "stride"
          /\ k = 0
          /\ \E b \in StrideBoundaries, c \in StepCurves :
                 env = [boundary |-> b, fast |-> c[1], slow |-> c[2], slope |-> 0]
    /\ pts = <<>>
    /\ result = 0
    /\ allocFails = 0 /\ heapFails = 0
    /\ IdleMedian /\ IdleMeasure /\ IdleCycle

\* A throwing std::vector allocation ends the process: std::bad_alloc passes
\* through the measurement function, the driver and main uncaught.  This is
\* the outcome of a failed working-set allocation in the size sweep (the
\* working set is a std::vector) and, in every sweep, of a failed allocation
\* of one of the auxiliary vectors.
\*
\* detect_size_L1, one pass of the loop at lines 187-191.  Working set:
\* next(n), line 151.  Auxiliary: sizes and pts (lines 110, 183), idx
\* (line 124), results (line 156).
SizeStep ==
    /\ pc = "sweep" /\ probe = "size"
    /\ k < Len(make_sizes_grid)
    /\ \/ /\ pts' = Append(pts, SizePoint(at(make_sizes_grid, k),
                                          latency_curve(env, at(make_sizes_grid, k))))
          /\ k' = k + 1
          /\ UNCHANGED <<pc, allocFails, heapFails>>
       \/ /\ allocFails + heapFails < MaxAllocFails
          /\ allocFails' = allocFails + 1
          /\ pc' = "terminated"
          /\ UNCHANGED <<pts, k, heapFails>>
       \/ /\ allocFails + heapFails < MaxAllocFails
          /\ heapFails' = heapFails + 1
          /\ pc' = "terminated"
          /\ UNCHANGED <<pts, k, allocFails>>
    /\ UNCHANGED <<result, v, input, probe, env, results, elapsed, call, next, idx>>

\* detect_size_L1, line 194: detect_jump_bytes on the 48 points, whose
\* baseVals.reserve (line 54) may throw.
SizeDetect ==
    /\ pc = "sweep" /\ probe = "size"
    /\ k = Len(make_sizes_grid)
    /\ \/ /\ result' = detect_jump_bytes(pts)
          /\ pc' = "done"
          /\ UNCHANGED heapFails
       \/ /\ allocFails + heapFails < MaxAllocFails
          /\ ~strict_too_short(pts)
          /\ heapFails' = heapFails + 1
          /\ pc' = "terminated"
          /\ UNCHANGED result
    /\ UNCHANGED <<pts, v, input, probe, k, env, allocFails,
                   results, elapsed,
                   call, next, idx>>

\* detect_associativity_L1, one pass of the loop at lines 263-267.  Working
\* set: posix_memalign, whose failure makes the measurement return 0.0
\* (line 208), recorded like any latency.  Auxiliary: pts (line 258),
\* results (line 213), nodes (line 217).
AssocStep ==
    /\ pc = "sweep" /\ probe = "assoc"
    /\ assoc_loop_continues(k)
    /\ \/ /\ pts' = Append(pts, SizePoint(k, latency_curve(env, k)))
          /\ k' = k + 1
          /\ UNCHANGED <<pc, allocFails, heapFails>>
       \/ /\ allocFails + heapFails < MaxAllocFails
          /\ allocFails' = allocFails + 1
          /\ pts' = Append(pts, SizePoint(k, FailMarker))
          /\ k' = k + 1
          /\ UNCHANGED <<pc, heapFails>>
       \/ /\ allocFails + heapFails < MaxAllocFails
          /\ heapFails' = heapFails + 1
          /\ pc' = "terminated"
          /\ UNCHANGED <<pts, k, allocFails>>
    /\ UNCHANGED <<result, v, input, probe, env, results, elapsed, call, next, idx>>

\* detect_associativity_L1, line 269: detect_jump_bytes on the 32 points,
\* whose baseVals.reserve (line 54) may throw.
AssocDetect ==
    /\ pc = "sweep" /\ probe = "assoc"
    /\ ~assoc_loop_continues(k)
    /\ \/ /\ result' = detect_jump_bytes(pts)
          /\ pc' = "done"
          /\ UNCHANGED heapFails
       \/ /\ allocFails + heapFails < MaxAllocFails
          /\ ~strict_too_short(pts)
          /\ heapFails' = heapFails + 1
          /\ pc' = "terminated"
          /\ UNCHANGED result
    /\ UNCHANGED <<pts, v, input, probe, k, env, allocFails,
                   results, elapsed,
                   call, next, idx>>

\* detect_stride_size_L1, one pass of the loop at lines 376-380.  Working
\* set: posix_memalign, whose failure makes measure_stride return 1
\* (line 293), recorded like any latency.  Auxiliary: idx(count) (line 308)
\* and the growth of pts (line 378).
StrideStep ==
    /\ pc = "sweep" /\ probe = "stride"
    /\ k < Len(stride_grid(min_stride))
    /\ \/ /\ pts' = Append(pts, SizePoint(at(stride_grid(min_stride), k),
                               latency_curve(env, at(stride_grid(min_stride), k))))
          /\ k' = k + 1
          /\ UNCHANGED <<pc, allocFails, heapFails>>
       \/ /\ allocFails + heapFails < MaxAllocFails
          /\ allocFails' = allocFails + 1
          /\ pts' = Append(pts, SizePoint(at(stride_grid(min_stride), k), stride_fail_ns))
          /\ k' = k + 1
          /\ UNCHANGED <<pc, heapFails>>
       \/ /\ allocFails + heapFails < MaxAllocFails
          /\ heapFails' = heapFails + 1
          /\ pc' = "terminated"
          /\ UNCHANGED <<pts, k, allocFails>>
    /\ UNCHANGED <<result, v, input, probe, env, results, elapsed, call, next, idx>>

\* detect_stride_size_L1, line 382: detect_jump_bytes_relaxed on the 8
\* points; the function allocates nothing.
StrideDetect ==
    /\ pc = "sweep" /\ probe = "stride"
    /\ k = Len(stride_grid(min_stride))
    /\ result' = detect_jump_bytes_relaxed(pts)
    /\ pc' = "done"
    /\ UNCHANGED <<pts, v, input, probe, k, env, allocFails, heapFails,
                   results, elapsed,
                   call, next, idx>>

NextSweep ==
    \/ SizeStep \/ SizeDetect
    \/ AssocStep \/ AssocDetect
    \/ StrideStep \/ StrideDetect

SpecSweep == InitSweep /\ [][NextSweep]_vars

\* The curve of the end-to-end scenario: 1 ns up to 32 KiB, 4 ns beyond.
Curve32K == [boundary |-> 32768, fast |-> 1, slow |-> 4, slope |-> 0]

\* C2: the size sweep over the standard grid, measuring 1 ns for every size
\* <= 32 KiB and 4 ns for every larger size, followed by the strict
\* detector, reports exactly 32768 bytes.
C2_Reports32K ==
    (probe = "size" /\ env = Curve32K /\ pc = "done") => result = 32768

C2_Witness ==
    /\ probe = "size" /\ env = Curve32K /\ pc = "done"
    /\ Len(pts) = 48
    /\ \E i \in 1..Len(pts) : pts[i].bytes = 32768 /\ pts[i].ns_per_access = 1
    /\ result = 32768

\* Latency flat through way 8 and growing linearly beyond it.
LinearBeyond8 == probe = "assoc" /\ env.boundary = 8 /\ env.slope > 0

\* C3: with latency growing linearly beyond way 8 the sweep stops
\* at way 8 or 9: no measurement is taken for a candidate count above 9.
C3_EarlyExit ==
    LinearBeyond8 => \A i \in 1..Len(pts) : pts[i].bytes <= 9

\* The number of parameter values of the running sweep.
SweepLength ==
    IF probe = "size" THEN 48 ELSE IF probe = "assoc" THEN 32 ELSE 8

\* C4: a failed working-set buffer allocation never ends a sweep abnormally
\* (no other allocation having failed): the sweep is still running or done,
\* and when it is done it holds a point (or a failure marker) for every
\* parameter value and the detector has run.
C4_AllocFailureSurvived ==
    (allocFails > 0 /\ heapFails = 0) =>
        /\ pc \in {"sweep", "done"}
        /\ pc = "done" => Len(pts) = SweepLength

====
